---- MODULE Spec2Model ----
(***************************************************************************)
(* QueryFlare: the read-only query gate of src/main.ts.                    *)
(*                                                                         *)
(*  - validateReadOnlyQuery (main.ts 41-113): parse, then a walk over the  *)
(*    syntax tree looking for denied statement kinds and denied calls.     *)
(*  - the POST /query/shared handler (main.ts 135-234): auth check, body   *)
(*    parse, validate, charge, exec, respond.                              *)
(*                                                                         *)
(* Two specifications: SpecValidate applies the validator to every syntax  *)
(* tree of a bounded size; Spec runs concurrent requests of one account    *)
(* through the handler.                                                    *)
(***************************************************************************)
EXTENDS Integers, Sequences, FiniteSets, TLC

(***************************************************************************)
(* Bounds.                                                                 *)
(***************************************************************************)
\* largest number of nodes of a syntax tree drawn in SpecValidate
MaxNodes == 3

(***************************************************************************)
(* Syntax trees.  A tree is a sequence of nodes in document order; node i  *)
(* carries its `type`, its `name` property and the index of the object     *)
(* that holds it (parent, 0 for the root; parent < i).  The children of a  *)
(* node, in index order, are what Object.values(node) yields as arrays and *)
(* objects (main.ts 91-97); primitive property values are never walked     *)
(* into (main.ts 55, 92-96) and are left out.                              *)
(*                                                                         *)
(* A `name` is absent (falsy), a string, or a non-string object.           *)
(***************************************************************************)
NoName == [k |-> "none", s |-> ""]
StrName(s) == [k |-> "str", s |-> s]
ObjName == [k |-> "obj", s |-> ""]

\* the statement kinds drawn as inputs: the eight the walk names, one
\* read-only kind, and kinds of the dialect the walk does not name
StmtTypes ==
    { "insert_stmt", "update_stmt", "delete_stmt", "create_table_stmt",
      "drop_table_stmt", "alter_table_stmt", "create_index_stmt",
      "drop_index_stmt", "select_stmt", "create_view_stmt", "pragma_stmt" }

\* the callee names drawn as inputs
FunctionNames ==
    { "load_extension", "LOAD_EXTENSION", "Load_Extension",
      "sqlite_compileoption_used", "sqlite_compileoption_get",
      "pragma", "PRAGMA", "count" }

NodeLabels ==
    { [type |-> t, name |-> NoName] : t \in StmtTypes \cup {"program"} }
      \cup { [type |-> "function_call", name |-> StrName(n)] : n \in FunctionNames }
      \cup { [type |-> "function_call", name |-> NoName],
             [type |-> "function_call", name |-> ObjName] }

MkNode(label, parent) ==
    [type |-> label.type, name |-> label.name, parent |-> parent]

\* the indices of the children of node i, in index order
RECURSIVE SeqOfSet(_)
SeqOfSet(S) ==
    IF S = {} THEN << >>
    ELSE LET m == CHOOSE x \in S : \A y \in S : x <= y
         IN <<m>> \o SeqOfSet(S \ {m})

Children(cst, i) == SeqOfSet({ j \in DOMAIN cst : cst[j].parent = i })

(***************************************************************************)
(* String.prototype.toLowerCase on the names drawn above (main.ts 75).     *)
(***************************************************************************)
\* mutant: the callee name is compared as written
ToLowerCase_asWritten(s) == s

ToLowerCase(s) ==
    CASE s = "LOAD_EXTENSION" -> "load_extension"
      [] s = "Load_Extension" -> "load_extension"
      [] s = "PRAGMA" -> "pragma"
      [] OTHER -> s

(***************************************************************************)
(* validateReadOnlyQuery (main.ts 41-113).                                 *)
(***************************************************************************)
\* mutant: the list of denied kinds also holds select_stmt
deniedStatementTypes_withSelect ==
    { "insert_stmt", "update_stmt", "delete_stmt", "create_table_stmt",
      "drop_table_stmt", "alter_table_stmt", "create_index_stmt",
      "drop_index_stmt", "select_stmt" }

\* mutant: the list of denied kinds lacks drop_index_stmt
deniedStatementTypes_noDropIndex ==
    { "insert_stmt", "update_stmt", "delete_stmt", "create_table_stmt",
      "drop_table_stmt", "alter_table_stmt", "create_index_stmt" }

\* main.ts 59-66
deniedStatementTypes ==
    { "insert_stmt", "update_stmt", "delete_stmt", "create_table_stmt",
      "drop_table_stmt", "alter_table_stmt", "create_index_stmt",
      "drop_index_stmt" }

\* main.ts 76-81
dangerousFunctions ==
    { "load_extension", "sqlite_compileoption_used",
      "sqlite_compileoption_get", "pragma" }

\* the walk's variables (main.ts 51-52), the nodes visited so far, and
\* whether an exception is unwinding the walk
WalkInit ==
    [hasNonReadOperation |-> FALSE, errorMessage |-> << >>,
     visited |-> << >>, thrown |-> FALSE]

\* main.ts 74: node.name is truthy
Truthy(name) == name.k = "obj" \/ (name.k = "str" /\ name.s # "")

\* checkNode (main.ts 54-98) on node i; checkAll is the forEach of 91-97
RECURSIVE checkNode(_, _, _), checkAll(_, _, _)
checkNode(cst, i, st) ==
    IF st.thrown THEN st
    ELSE
      LET node == cst[i]
          st1 == [st EXCEPT !.visited = Append(@, i)]
      IN IF node.type \in deniedStatementTypes
         THEN [st1 EXCEPT !.hasNonReadOperation = TRUE,
                          !.errorMessage = <<"Write operation not allowed", node.type>>]
         ELSE IF node.type = "function_call" /\ Truthy(node.name)
         THEN IF node.name.k # "str"
              THEN [st1 EXCEPT !.thrown = TRUE]   \* toLowerCase is not a function
              ELSE LET functionName == ToLowerCase(node.name.s)
                   IN IF functionName \in dangerousFunctions
                      THEN [st1 EXCEPT !.hasNonReadOperation = TRUE,
                                       !.errorMessage = <<"Function not allowed", functionName>>]
                      ELSE checkAll(cst, Children(cst, i), st1)
         ELSE checkAll(cst, Children(cst, i), st1)
checkAll(cst, kids, st) ==
    IF kids = << >> THEN st
    ELSE checkAll(cst, Tail(kids), checkNode(cst, Head(kids), st))

\* the walk of the whole tree (main.ts 100)
Walk(cst) == checkNode(cst, 1, WalkInit)

\* A statement text is represented by what parse (main.ts 46-48) makes of
\* it: a thrown parse error, or a syntax tree.
ParseError == [parses |-> FALSE, cst |-> << >>]
Parsed(cst) == [parses |-> TRUE, cst |-> cst]

NoError == << >>

\* mutant: the catch lets the statement through
CatchVerdict_failOpen(message) == [isValid |-> TRUE, error |-> << >>]

\* main.ts 107-111
CatchVerdict(message) ==
    [isValid |-> FALSE, error |-> <<"SQL parsing error", message>>]

\* mutant: an exception of the walk is swallowed and the flag left unset
validateReadOnlyQuery_swallow(sql) ==
    IF ~sql.parses
    THEN CatchVerdict("parse diagnostic")
    ELSE LET w == Walk(sql.cst)
         IN IF w.hasNonReadOperation
            THEN [isValid |-> FALSE, error |-> w.errorMessage]
            ELSE [isValid |-> TRUE, error |-> NoError]

validateReadOnlyQuery(sql) ==
    IF ~sql.parses
    THEN CatchVerdict("parse diagnostic")
    ELSE LET w == Walk(sql.cst)
         IN IF w.thrown
            THEN CatchVerdict("node.name.toLowerCase is not a function")
            ELSE IF w.hasNonReadOperation
                 THEN [isValid |-> FALSE, error |-> w.errorMessage]
                 ELSE [isValid |-> TRUE, error |-> NoError]

(***************************************************************************)
(* The ledger's charge (the `charge` of the request context, main.ts 131,  *)
(* called at main.ts 180).  One atomic check-and-debit on the account's    *)
(* balance; the second argument is the ledger's allow-negative switch,     *)
(* which the handler passes as false.                                      *)
(***************************************************************************)
\* mutant: the ledger debits without looking at the balance
charge_unchecked(bal, amountCent, allowNegativeBalance) ==
    [charged |-> TRUE, message |-> "",
     balanceBefore |-> bal, balanceAfter |-> bal - amountCent]

charge(bal, amountCent, allowNegativeBalance) ==
    IF ~allowNegativeBalance /\ bal < amountCent
    THEN [charged |-> FALSE, message |-> "insufficient balance",
          balanceBefore |-> bal, balanceAfter |-> bal]
    ELSE [charged |-> TRUE, message |-> "",
          balanceBefore |-> bal, balanceAfter |-> bal - amountCent]

(***************************************************************************)
(* Bounds and constants of the request pipeline.                           *)
(***************************************************************************)
\* number of concurrent requests of the one account
MaxReqs == 2
\* largest starting balance of the account
MaxBalance == 4
\* the fee of one query, 0.1 cent (main.ts 180, 210, 211); amounts are
\* counted in units of 0.05 cent so that a balance need not be a multiple
\* of the fee
Fee == 2

Reqs == 1..MaxReqs

(***************************************************************************)
(* Request inputs.                                                         *)
(***************************************************************************)
\* sample statements: what parse makes of the text of the request
SelectCount ==
    Parsed(<< MkNode([type |-> "program", name |-> NoName], 0),
              MkNode([type |-> "select_stmt", name |-> NoName], 1),
              MkNode([type |-> "function_call", name |-> StrName("count")], 2) >>)
InsertRow ==
    Parsed(<< MkNode([type |-> "program", name |-> NoName], 0),
              MkNode([type |-> "insert_stmt", name |-> NoName], 1) >>)
SelectLoadExtension ==
    Parsed(<< MkNode([type |-> "program", name |-> NoName], 0),
              MkNode([type |-> "select_stmt", name |-> NoName], 1),
              MkNode([type |-> "function_call", name |-> StrName("LOAD_EXTENSION")], 2) >>)
CreateView ==
    Parsed(<< MkNode([type |-> "program", name |-> NoName], 0),
              MkNode([type |-> "create_view_stmt", name |-> NoName], 1),
              MkNode([type |-> "select_stmt", name |-> NoName], 2) >>)
PragmaStmt ==
    Parsed(<< MkNode([type |-> "program", name |-> NoName], 0),
              MkNode([type |-> "pragma_stmt", name |-> NoName], 1) >>)
SelectObjNameCall ==
    Parsed(<< MkNode([type |-> "program", name |-> NoName], 0),
              MkNode([type |-> "select_stmt", name |-> NoName], 1),
              MkNode([type |-> "function_call", name |-> ObjName], 2) >>)

SampleSql ==
    { ParseError, SelectCount, InsertRow, SelectLoadExtension, CreateView,
      PragmaStmt, SelectObjNameCall }

\* the `sql` field of a body that has none, or an empty one (falsy)
NoSql == [parses |-> FALSE, cst |-> <<0>>]

\* a request body: text that is not JSON, the JSON value null, or an object
\* with an `sql` field
Bodies ==
    { [kind |-> "malformed", sql |-> NoSql],
      [kind |-> "null", sql |-> NoSql],
      [kind |-> "object", sql |-> NoSql] }
      \cup { [kind |-> "object", sql |-> q] : q \in SampleSql }

\* the `params` field of a body: absent, an array, or a value that cannot
\* be spread into a call
ParamsValues == {"absent", "array", "notIterable"}

(***************************************************************************)
(* State.                                                                  *)
(***************************************************************************)
VARIABLES
    vpc,        \* SpecValidate: "call" before the validator ran, "return" after
    vsql,       \* SpecValidate: the argument of validateReadOnlyQuery
    vresult,    \* SpecValidate: its return value
    vwalk,      \* SpecValidate: the walk's variables when it ended (main.ts 51-52, 100)
    balance,    \* the ledger's balance of the account
    balance0,   \* the balance the account started with
    pc,         \* per request: the stage it is at
    user,       \* per request: ctx.user, read before the handler runs (main.ts 131)
    body,       \* per request: the body sent
    data,       \* per request: the parsed body (main.ts 149)
    validation, \* per request: the validator's verdict (main.ts 165)
    chargeResult, \* per request: the ledger's answer (main.ts 180)
    executed,   \* per request: the calls of exec, in order (main.ts 200): the sql
                \* handed over, data.params as read, and the bind arguments
    responses,  \* per request: the responses returned, in order
    trace       \* per request: the stages performed, in order

vvars == <<vpc, vsql, vresult, vwalk>>
pvars == <<balance, balance0, pc, user, body, data, validation, chargeResult,
           executed, responses, trace>>
vars == <<vpc, vsql, vresult, vwalk, balance, balance0, pc, user, body, data,
          validation, chargeResult, executed, responses, trace>>

NoVerdict == [isValid |-> FALSE, error |-> <<"pending">>]
NoUser == [access_token |-> FALSE, balance |-> 0]
NoBody == [kind |-> "none", sql |-> NoSql]
NoCharge ==
    [charged |-> FALSE, message |-> "pending", balanceBefore |-> 0, balanceAfter |-> 0]

\* the pipeline's variables while SpecValidate runs, and at the start of Spec
PIdle ==
    /\ pc = [r \in Reqs |-> "idle"]
    /\ user = [r \in Reqs |-> NoUser]
    /\ body = [r \in Reqs |-> NoBody]
    /\ data = [r \in Reqs |-> NoBody]
    /\ validation = [r \in Reqs |-> NoVerdict]
    /\ chargeResult = [r \in Reqs |-> NoCharge]
    /\ executed = [r \in Reqs |-> << >>]
    /\ responses = [r \in Reqs |-> << >>]
    /\ trace = [r \in Reqs |-> << >>]

(***************************************************************************)
(* SpecValidate: the validator applied to every bounded input.             *)
(***************************************************************************)
VInit ==
    /\ vpc = "call"
    /\ vsql \in { Parsed(<<MkNode(l, 0)>>) : l \in NodeLabels }
    /\ vresult = NoVerdict
    /\ vwalk = WalkInit
    /\ balance = 0 /\ balance0 = 0
    /\ PIdle

\* the text is one the parser rejects
VParseError ==
    /\ vpc = "call"
    /\ vsql.parses /\ Len(vsql.cst) = 1
    /\ vsql' = ParseError
    /\ UNCHANGED <<vpc, vresult, vwalk>>
    /\ UNCHANGED pvars

\* the text has one more node, held by node p
VAddNode ==
    /\ vpc = "call"
    /\ vsql.parses /\ Len(vsql.cst) < MaxNodes
    /\ \E l \in NodeLabels, p \in 1..Len(vsql.cst) :
         vsql' = Parsed(Append(vsql.cst, MkNode(l, p)))
    /\ UNCHANGED <<vpc, vresult, vwalk>>
    /\ UNCHANGED pvars

VValidate ==
    /\ vpc = "call"
    /\ vresult' = validateReadOnlyQuery(vsql)
    /\ vwalk' = IF vsql.parses THEN Walk(vsql.cst) ELSE WalkInit
    /\ vpc' = "return"
    /\ UNCHANGED vsql
    /\ UNCHANGED pvars

VNext == VParseError \/ VAddNode \/ VValidate

SpecValidate == VInit /\ [][VNext]_vars

(***************************************************************************)
(* The POST /query/shared handler (main.ts 135-234), one request r.        *)
(***************************************************************************)
Respond(r, resp) == responses' = [responses EXCEPT ![r] = Append(@, resp)]
Stage(r, name) == trace' = [trace EXCEPT ![r] = Append(@, name)]

\* the catch of main.ts 221-233
Caught(message) ==
    [status |-> 500, error |-> "Query execution failed", details |-> <<message>>]

\* a request arrives; the middleware has read the user (main.ts 129-131).
\* Requests are interchangeable, so they arrive in the order of their index.
Receive(r) ==
    /\ pc[r] = "idle"
    /\ \A q \in Reqs : q < r => pc[q] # "idle"
    /\ \E tok \in BOOLEAN :
         user' = [user EXCEPT ![r] = [access_token |-> tok, balance |-> balance]]
    /\ pc' = [pc EXCEPT ![r] = "AuthCheck"]
    /\ UNCHANGED <<balance, balance0, body, data, validation, chargeResult,
                   executed, responses, trace>>
    /\ UNCHANGED vvars

\* mutant: the 401 branch lacks its return
AuthCheck_noReturn(r) ==
    /\ pc[r] = "AuthCheck"
    /\ Stage(r, "AuthCheck")
    /\ IF ~user[r].access_token
       THEN Respond(r, [status |-> 401, error |-> "Authentication required"])
       ELSE UNCHANGED responses
    /\ pc' = [pc EXCEPT ![r] = "BodyParse"]
    /\ UNCHANGED <<balance, balance0, user, body, data, validation, chargeResult,
                   executed>>
    /\ UNCHANGED vvars

\* main.ts 137-146
AuthCheck(r) ==
    /\ pc[r] = "AuthCheck"
    /\ Stage(r, "AuthCheck")
    /\ IF ~user[r].access_token
       THEN /\ Respond(r, [status |-> 401, error |-> "Authentication required"])
            /\ pc' = [pc EXCEPT ![r] = "done"]
       ELSE /\ pc' = [pc EXCEPT ![r] = "BodyParse"]
            /\ UNCHANGED responses
    /\ UNCHANGED <<balance, balance0, user, body, data, validation, chargeResult,
                   executed>>
    /\ UNCHANGED vvars

\* mutant: the body is read outside the try, so an unreadable body ends the
\* handler without a response
BodyParse_uncaught(r) ==
    /\ pc[r] = "BodyParse"
    /\ Stage(r, "BodyParse")
    /\ \E b \in Bodies :
         /\ body' = [body EXCEPT ![r] = b]
         /\ IF b.kind \in {"malformed", "null"}
            THEN /\ pc' = [pc EXCEPT ![r] = "done"]
                 /\ UNCHANGED <<data, responses>>
            ELSE /\ data' = [data EXCEPT ![r] = b]
                 /\ IF b.sql = NoSql
                    THEN /\ Respond(r, [status |-> 400, error |-> "SQL query is required"])
                         /\ pc' = [pc EXCEPT ![r] = "done"]
                    ELSE /\ pc' = [pc EXCEPT ![r] = "Validate"]
                         /\ UNCHANGED responses
    /\ UNCHANGED <<balance, balance0, user, validation, chargeResult, executed>>
    /\ UNCHANGED vvars

\* main.ts 148-162: await request.json() on the body b the caller sent,
\* then the check of data.sql
BodyParse(r) ==
    /\ pc[r] = "BodyParse"
    /\ Stage(r, "BodyParse")
    /\ \E b \in Bodies :
         /\ body' = [body EXCEPT ![r] = b]
         /\ IF b.kind = "malformed"
            THEN \* request.json() rejects
                 /\ Respond(r, Caught("Unexpected token in JSON"))
                 /\ pc' = [pc EXCEPT ![r] = "done"]
                 /\ UNCHANGED data
            ELSE IF b.kind = "null"
            THEN \* data is null: reading data.sql throws
                 /\ Respond(r, Caught("Cannot read properties of null"))
                 /\ pc' = [pc EXCEPT ![r] = "done"]
                 /\ UNCHANGED data
            ELSE /\ data' = [data EXCEPT ![r] = b]
                 /\ IF b.sql = NoSql
                    THEN /\ Respond(r, [status |-> 400, error |-> "SQL query is required"])
                         /\ pc' = [pc EXCEPT ![r] = "done"]
                    ELSE /\ pc' = [pc EXCEPT ![r] = "Validate"]
                         /\ UNCHANGED responses
    /\ UNCHANGED <<balance, balance0, user, validation, chargeResult, executed>>
    /\ UNCHANGED vvars

\* mutant: the handler goes on to the charge whatever the verdict
Validate_noGate(r) ==
    /\ pc[r] = "Validate"
    /\ Stage(r, "Validate")
    /\ validation' = [validation EXCEPT ![r] = validateReadOnlyQuery(data[r].sql)]
    /\ pc' = [pc EXCEPT ![r] = "Charge"]
    /\ UNCHANGED <<balance, balance0, user, body, data, chargeResult, executed,
                   responses>>
    /\ UNCHANGED vvars

\* main.ts 164-177
Validate(r) ==
    /\ pc[r] = "Validate"
    /\ Stage(r, "Validate")
    /\ LET v == validateReadOnlyQuery(data[r].sql)
       IN /\ validation' = [validation EXCEPT ![r] = v]
          /\ IF ~v.isValid
             THEN /\ Respond(r, [status |-> 400, error |-> "Invalid query",
                                 details |-> v.error])
                  /\ pc' = [pc EXCEPT ![r] = "done"]
             ELSE /\ pc' = [pc EXCEPT ![r] = "Charge"]
                  /\ UNCHANGED responses
    /\ UNCHANGED <<balance, balance0, user, body, data, chargeResult, executed>>
    /\ UNCHANGED vvars

\* mutant: the handler lets the ledger take the balance below zero
Charge_allowNegative(r) ==
    /\ pc[r] = "Charge"
    /\ Stage(r, "Charge")
    /\ LET c == charge(balance, Fee, TRUE)
       IN /\ chargeResult' = [chargeResult EXCEPT ![r] = c]
          /\ balance' = c.balanceAfter
          /\ pc' = [pc EXCEPT ![r] = "ChargeResult"]
    /\ UNCHANGED <<balance0, user, body, data, validation, executed, responses>>
    /\ UNCHANGED vvars

\* main.ts 180: the call of charge(0.1, false), performed by the ledger; the
\* call may also reject, which the catch of main.ts 221-233 answers
Charge(r) ==
    /\ pc[r] = "Charge"
    /\ Stage(r, "Charge")
    /\ \/ LET c == charge(balance, Fee, FALSE)
          IN /\ chargeResult' = [chargeResult EXCEPT ![r] = c]
             /\ balance' = c.balanceAfter
             /\ pc' = [pc EXCEPT ![r] = "ChargeResult"]
             /\ UNCHANGED responses
       \/ /\ Respond(r, Caught("charge failed"))
          /\ pc' = [pc EXCEPT ![r] = "done"]
          /\ UNCHANGED <<balance, chargeResult>>
    /\ UNCHANGED <<balance0, user, body, data, validation, executed>>
    /\ UNCHANGED vvars

\* mutant: the handler goes on to exec whatever the ledger answered
ChargeResult_noGate(r) ==
    /\ pc[r] = "ChargeResult"
    /\ pc' = [pc EXCEPT ![r] = "Execute"]
    /\ UNCHANGED <<balance, balance0, user, body, data, validation, chargeResult,
                   executed, responses, trace>>
    /\ UNCHANGED vvars

\* main.ts 182-194
ChargeResult(r) ==
    /\ pc[r] = "ChargeResult"
    /\ IF ~chargeResult[r].charged
       THEN /\ Respond(r, [status |-> 402, error |-> "Insufficient balance",
                           message |-> chargeResult[r].message,
                           balance |-> user[r].balance])
            /\ pc' = [pc EXCEPT ![r] = "done"]
       ELSE /\ pc' = [pc EXCEPT ![r] = "Execute"]
            /\ UNCHANGED responses
    /\ UNCHANGED <<balance, balance0, user, body, data, validation, chargeResult,
                   executed, trace>>
    /\ UNCHANGED vvars

\* mutant: an engine fault makes the handler call exec again
Execute_retry(r) ==
    /\ pc[r] = "Execute"
    /\ Stage(r, "Execute")
    /\ executed' = [executed EXCEPT ![r] =
          Append(@, [sql |-> data[r].sql, dataParams |-> "absent",
                     args |-> "empty"])]
    /\ \/ pc' = [pc EXCEPT ![r] = "Respond"]
       \/ UNCHANGED pc
    /\ UNCHANGED <<balance, balance0, user, body, data, validation, chargeResult,
                   responses>>
    /\ UNCHANGED vvars

\* mutant: exec is handed another statement than data.sql, and no arguments
Execute_otherSql(r) ==
    /\ pc[r] = "Execute"
    /\ Stage(r, "Execute")
    /\ \E params \in ParamsValues :
         executed' = [executed EXCEPT ![r] =
            Append(@, [sql |-> InsertRow, dataParams |-> params, args |-> "empty"])]
    /\ pc' = [pc EXCEPT ![r] = "Respond"]
    /\ UNCHANGED <<balance, balance0, user, body, data, validation, chargeResult,
                   responses>>
    /\ UNCHANGED vvars

\* mutant: an engine fault gives the fee back
Execute_refund(r) ==
    /\ pc[r] = "Execute"
    /\ Stage(r, "Execute")
    /\ executed' = [executed EXCEPT ![r] =
          Append(@, [sql |-> data[r].sql, dataParams |-> "absent",
                     args |-> "empty"])]
    /\ \/ /\ pc' = [pc EXCEPT ![r] = "Respond"]
          /\ UNCHANGED <<responses, balance>>
       \/ /\ Respond(r, Caught("engine fault"))
          /\ balance' = balance + Fee
          /\ pc' = [pc EXCEPT ![r] = "done"]
    /\ UNCHANGED <<balance0, user, body, data, validation, chargeResult>>
    /\ UNCHANGED vvars

\* main.ts 196-201: the spread of data.params (read here for the first
\* time, so drawn here), the call of exec and the await of cursor.raw(); the
\* engine answers with rows or with a fault
Execute(r) ==
    /\ pc[r] = "Execute"
    /\ Stage(r, "Execute")
    /\ \E params \in ParamsValues :
         IF params = "notIterable"
         THEN \* the spread throws before exec is called
              /\ Respond(r, Caught("data.params is not iterable"))
              /\ pc' = [pc EXCEPT ![r] = "done"]
              /\ UNCHANGED executed
         ELSE /\ executed' = [executed EXCEPT ![r] =
                    Append(@, [sql |-> data[r].sql,
                               dataParams |-> params,
                               args |-> IF params = "absent"
                                        THEN "empty" ELSE "array"])]
              /\ \/ /\ pc' = [pc EXCEPT ![r] = "Respond"]
                    /\ UNCHANGED responses
                 \/ /\ Respond(r, Caught("engine fault"))
                    /\ pc' = [pc EXCEPT ![r] = "done"]
    /\ UNCHANGED <<balance, balance0, user, body, data, validation, chargeResult>>
    /\ UNCHANGED vvars

\* main.ts 203-220
SendResult(r) ==
    /\ pc[r] = "Respond"
    /\ Stage(r, "Respond")
    /\ Respond(r, [status |-> 200,
                   meta |-> [charge_applied |-> Fee,
                             remaining_balance |-> user[r].balance - Fee]])
    /\ pc' = [pc EXCEPT ![r] = "done"]
    /\ UNCHANGED <<balance, balance0, user, body, data, validation, chargeResult,
                   executed>>
    /\ UNCHANGED vvars

Init ==
    /\ balance \in 0..MaxBalance
    /\ balance0 = balance
    /\ PIdle
    /\ vpc = "return" /\ vsql = ParseError /\ vresult = NoVerdict
    /\ vwalk = WalkInit

Next ==
    \E r \in Reqs :
        \/ Receive(r)
        \/ AuthCheck(r)
        \/ BodyParse(r)
        \/ Validate(r)
        \/ Charge(r)
        \/ ChargeResult(r)
        \/ Execute(r)
        \/ SendResult(r)

Spec == Init /\ [][Next]_vars

\* a step of request r once it has been received
Step(r) ==
    \/ AuthCheck(r)
    \/ BodyParse(r)
    \/ Validate(r)
    \/ Charge(r)
    \/ ChargeResult(r)
    \/ Execute(r)
    \/ SendResult(r)

\* Every awaited call (request.json, charge, cursor.raw) settles, and the
\* event loop then runs a continuation that is ready: while some received
\* request can take a step, one of them eventually does.
FairSpec == Spec /\ WF_vars(\E r \in Reqs : Step(r))

(***************************************************************************)
(* Helpers of the properties.                                              *)
(***************************************************************************)
Range(seq) == { seq[i] : i \in DOMAIN seq }
Positions(seq, x) == { i \in DOMAIN seq : seq[i] = x }
Count(seq, x) == Cardinality(Positions(seq, x))

\* the requests whose charge returned charged = true
ChargedReqs == { r \in Reqs : chargeResult[r].charged }

\* request r's statement was handed to the validator and rejected
Rejected(r) == "Validate" \in Range(trace[r]) /\ ~validation[r].isValid

(***************************************************************************)
(* C1.  The charge is invoked only when the validation of that request's   *)
(* statement, the stage immediately before it, returned isValid = true;    *)
(* a request whose statement the validator rejects makes no charge call.   *)
(***************************************************************************)
C1_ChargeOnlyAfterValid ==
    \A r \in Reqs :
        /\ \A i \in Positions(trace[r], "Charge") :
              /\ i > 1
              /\ trace[r][i - 1] = "Validate"
              /\ validation[r].isValid
        /\ Rejected(r) =>
              /\ Count(trace[r], "Charge") = 0
              /\ chargeResult[r] = NoCharge

\* one request was charged while another, rejected, has been answered
C1_Witness ==
    \E r, q \in Reqs :
        /\ chargeResult[r].charged
        /\ Rejected(q) /\ pc[q] = "done"

(***************************************************************************)
(* C2.  exec is called, and the Execute stage entered, only after the      *)
(* same request's charge returned charged = true: never before the charge, *)
(* never after a charge that returned charged = false.                     *)
(***************************************************************************)
C2_ExecOnlyAfterCharged ==
    \A r \in Reqs :
        /\ (executed[r] # << >> \/ "Execute" \in Range(trace[r])) =>
              /\ chargeResult[r].charged
              /\ \E i, j \in DOMAIN trace[r] :
                    i < j /\ trace[r][i] = "Charge" /\ trace[r][j] = "Execute"
        /\ (Count(trace[r], "Charge") > 0 /\ ~chargeResult[r].charged) =>
              /\ executed[r] = << >>
              /\ "Execute" \notin Range(trace[r])

\* one request reached exec after its charge; another, refused by the
\* ledger, has been answered
C2_Witness ==
    \E r, q \in Reqs :
        /\ executed[r] # << >>
        /\ chargeResult[q].message = "insufficient balance" /\ pc[q] = "done"

(***************************************************************************)
(* C3.  However the requests of the account interleave, the number of      *)
(* requests whose charge returned charged = true never exceeds             *)
(* floor(B / f), B the starting balance and f the fee.                     *)
(***************************************************************************)
C3_NoDoubleSpend ==
    Cardinality(ChargedReqs) <= balance0 \div Fee

\* two requests went to the ledger when the balance covered one fee only:
\* one was charged, the other refused
C3_Witness ==
    /\ balance0 \div Fee = 1
    /\ \E r, q \in Reqs :
          /\ chargeResult[r].charged
          /\ chargeResult[q].message = "insufficient balance"

(***************************************************************************)
(* C4.  Every successful charge lowers the balance by exactly the fee, the *)
(* balance is the starting balance less one fee per successful charge, and *)
(* it is never negative.                                                   *)
(***************************************************************************)
C4_BalanceConservation ==
    /\ \A r \in ChargedReqs :
          chargeResult[r].balanceAfter = chargeResult[r].balanceBefore - Fee
    /\ balance = balance0 - Fee * Cardinality(ChargedReqs)
    /\ balance >= 0

\* a charge has taken the balance down to zero
C4_Witness ==
    /\ ChargedReqs # {}
    /\ balance = 0

(***************************************************************************)
(* Helpers of the properties about syntax trees.                           *)
(***************************************************************************)
\* the eight statement kinds the specification lists
ListedKinds ==
    { "insert_stmt", "update_stmt", "delete_stmt", "create_table_stmt",
      "drop_table_stmt", "alter_table_stmt", "create_index_stmt",
      "drop_index_stmt" }

\* write, DDL and PRAGMA statement kinds of the dialect
WriteDdlPragmaKinds ==
    ListedKinds \cup
    { "create_view_stmt", "drop_view_stmt", "create_trigger_stmt",
      "drop_trigger_stmt", "pragma_stmt", "attach_database_stmt" }

HasNodeOfType(cst, kinds) == \E i \in DOMAIN cst : cst[i].type \in kinds

\* the denylisted function a callee name names, letter case ignored
CaseFold(n) ==
    CASE n \in {"load_extension", "LOAD_EXTENSION", "Load_Extension"} -> "load_extension"
      [] n \in {"pragma", "PRAGMA"} -> "pragma"
      [] OTHER -> n

DenylistedNames ==
    { "load_extension", "sqlite_compileoption_used",
      "sqlite_compileoption_get", "pragma" }

\* node is a function call whose callee name is denylisted
DeniedCall(node) ==
    /\ node.type = "function_call"
    /\ node.name.k = "str"
    /\ CaseFold(node.name.s) \in DenylistedNames

\* node i is the only forbidden node of the tree, and no function call of
\* the tree has a name that is not a string
OnlyViolation(cst, i) ==
    \A j \in DOMAIN cst :
        /\ cst[j].type \notin ListedKinds
        /\ j # i => ~DeniedCall(cst[j])
        /\ ~(cst[j].type = "function_call" /\ cst[j].name.k = "obj")

Returned == vpc = "return" /\ vsql.parses

(***************************************************************************)
(* C5.  A syntax tree holding, at the top or at any depth, a node of one   *)
(* of the eight listed kinds is rejected: validate returns isValid=false.  *)
(***************************************************************************)
C5_DenylistComplete ==
    (Returned /\ HasNodeOfType(vsql.cst, ListedKinds)) => ~vresult.isValid

\* a drop-index node two levels below the root has been rejected
C5_Witness ==
    /\ Returned
    /\ Len(vsql.cst) = 3
    /\ vsql.cst[2].type = "select_stmt" /\ vsql.cst[2].parent = 1
    /\ vsql.cst[3].type = "drop_index_stmt" /\ vsql.cst[3].parent = 2
    /\ ~vresult.isValid

(***************************************************************************)
(* C6.  No statement handed to exec holds a write, DDL or PRAGMA statement *)
(* node of any kind of the dialect, the kinds outside the eight listed     *)
(* ones included (create/drop view, create/drop trigger, pragma, attach).  *)
(***************************************************************************)
C6_GateBlocksAllWritesAndDdl ==
    \A r \in Reqs : \A k \in DOMAIN executed[r] :
        ~HasNodeOfType(executed[r][k].sql.cst, WriteDdlPragmaKinds)

C8_ParseFailureRejects ==
    \A r \in Reqs :
        ("Validate" \in Range(trace[r]) /\ ~data[r].sql.parses) =>
          /\ ~validation[r].isValid
          /\ validation[r].error = <<"SQL parsing error", "parse diagnostic">>
          /\ pc[r] = "done"
          /\ responses[r] = << [status |-> 400, error |-> "Invalid query",
                                details |-> validation[r].error] >>
          /\ Count(trace[r], "Charge") = 0
          /\ chargeResult[r] = NoCharge
          /\ executed[r] = << >>

\* a request with an unparsable statement has been validated and answered
C8_Witness ==
    \E r \in Reqs :
        /\ "Validate" \in Range(trace[r])
        /\ data[r].sql = ParseError
        /\ Len(responses[r]) = 1

(***************************************************************************)
(* C9.  The response is decided by the first stage that fails: no          *)
(* credential 401; a body without a non-empty sql field 400 "SQL query is  *)
(* required"; a rejected statement 400 "Invalid query" with the reason;    *)
(* charged = false 402; a fault during execution 500 "Query execution      *)
(* failed"; no failure 200.                                                *)
(***************************************************************************)
\* the body of request r has no non-empty sql field
LacksSql(r) == body[r].kind \in {"malformed", "null"} \/ body[r].sql = NoSql

C9_FirstFailureDecides ==
    \A r \in Reqs :
        (pc[r] = "done" /\ Len(responses[r]) = 1) =>
          LET resp == responses[r][1]
          IN IF ~user[r].access_token
             THEN resp.status = 401
             ELSE IF LacksSql(r)
             THEN resp.status = 400 /\ resp.error = "SQL query is required"
             ELSE IF ~validation[r].isValid
             THEN /\ resp.status = 400 /\ resp.error = "Invalid query"
                  /\ resp.details = validation[r].error
             ELSE IF chargeResult[r] = NoCharge
             THEN TRUE      \* the charge call itself failed: not in the table
             ELSE IF ~chargeResult[r].charged
             THEN resp.status = 402
             ELSE IF "Respond" \notin Range(trace[r])
             THEN resp.status = 500 /\ resp.error = "Query execution failed"
             ELSE resp.status = 200

(***************************************************************************)
(* C10.  A request whose body is missing or malformed is answered 400, not *)
(* 500, and no validation, charge or execution happens for it.             *)
(***************************************************************************)
C10_MalformedBodyIs400 ==
    \A r \in Reqs :
        (pc[r] = "done" /\ body[r].kind \in {"malformed", "null"}) =>
          /\ Len(responses[r]) = 1
          /\ responses[r][1].status = 400
          /\ "Validate" \notin Range(trace[r])
          /\ Count(trace[r], "Charge") = 0
          /\ executed[r] = << >>

(***************************************************************************)
(* C11.  A request whose charge finds the balance below the fee is refused *)
(* by the ledger and answered 402 without row data; exec is never called   *)
(* for it and its charge leaves the balance as it found it.                *)
(***************************************************************************)
\* request r's charge was performed with the balance below the fee
ChargedShort(r) ==
    /\ chargeResult[r] # NoCharge
    /\ chargeResult[r].balanceBefore < Fee

C11_InsufficientBalance ==
    /\ \A r \in Reqs :
          ChargedShort(r) =>
            /\ ~chargeResult[r].charged
            /\ chargeResult[r].balanceAfter = chargeResult[r].balanceBefore
            /\ executed[r] = << >>
            /\ "Execute" \notin Range(trace[r])
            /\ pc[r] \in {"ChargeResult", "done"}
            /\ pc[r] = "done" =>
                 responses[r] = << [status |-> 402, error |-> "Insufficient balance",
                                    message |-> "insufficient balance",
                                    balance |-> user[r].balance] >>
    /\ balance = balance0 - Fee * Cardinality(ChargedReqs)

\* a request has been answered 402 after its charge found less than a fee
\* on an account that had started with more than one
C11_Witness ==
    \E r \in Reqs :
        /\ ChargedShort(r)
        /\ pc[r] = "done"
        /\ balance0 >= Fee
        /\ balance = chargeResult[r].balanceBefore

(***************************************************************************)
(* C12.  When execution fails after a successful charge the request is     *)
(* answered 500 and the debit stands: no credit is ever made, so the       *)
(* balance stays the starting balance less one fee per successful charge.  *)
(***************************************************************************)
\* request r was charged and ended without reaching the result
FailedAfterCharge(r) ==
    /\ chargeResult[r].charged
    /\ pc[r] = "done"
    /\ "Respond" \notin Range(trace[r])

C12_DebitStands ==
    /\ \A r \in Reqs :
          FailedAfterCharge(r) =>
            /\ Len(responses[r]) = 1
            /\ responses[r][1].status = 500
            /\ responses[r][1].error = "Query execution failed"
            /\ balance <= chargeResult[r].balanceBefore - Fee
    /\ balance = balance0 - Fee * Cardinality(ChargedReqs)
    /\ balance <= balance0

\* the only charged request failed in the engine and the fee is gone
C12_Witness ==
    \E r \in Reqs :
        /\ FailedAfterCharge(r)
        /\ executed[r] # << >>
        /\ ChargedReqs = {r}
        /\ balance = chargeResult[r].balanceBefore - Fee

(***************************************************************************)
(* C13.  In every 200 response meta.remaining_balance is the balance this  *)
(* request's charge left (the balance just before the charge less the      *)
(* fee), however the request interleaves with others of the account.       *)
(***************************************************************************)
C13_RemainingBalanceIsBalanceAfter ==
    \A r \in Reqs : \A k \in DOMAIN responses[r] :
        responses[r][k].status = 200 =>
          responses[r][k].meta.remaining_balance = chargeResult[r].balanceAfter

(***************************************************************************)
(* C14.  A parsed tree with no node of a denied statement kind and no call *)
(* of a denylisted function is accepted; as claimed, for every such tree   *)
(* (C14_CleanTreeAccepted); as amended, for every such tree that has no    *)
(* function-call node whose name is not a string.                          *)
(***************************************************************************)
Clean(cst) ==
    /\ ~HasNodeOfType(cst, ListedKinds)
    /\ \A i \in DOMAIN cst : ~DeniedCall(cst[i])

HasObjCall(cst) ==
    \E i \in DOMAIN cst : cst[i].type = "function_call" /\ cst[i].name.k = "obj"

Violation(node) == node.type \in ListedKinds \/ DeniedCall(node)

ReasonOf(node) ==
    IF node.type \in ListedKinds
    THEN <<"Write operation not allowed", node.type>>
    ELSE <<"Function not allowed", CaseFold(node.name.s)>>

C15_StopsAtFirstViolation ==
    Returned =>
      \A k \in DOMAIN vwalk.visited :
          Violation(vsql.cst[vwalk.visited[k]]) =>
            /\ k = Len(vwalk.visited)
            /\ vresult.error = ReasonOf(vsql.cst[vwalk.visited[k]])

(***************************************************************************)
(* C20.  The validator fails closed when the walk itself throws: a tree    *)
(* with a function-call node whose name is not a string is never accepted, *)
(* and when the walk threw on such a node the validator still returns, a   *)
(* verdict isValid = false with the exception's text as the reason.        *)
(***************************************************************************)
C20_FailsClosedOnWalkException ==
    Returned =>
      /\ HasObjCall(vsql.cst) => ~vresult.isValid
      /\ vwalk.thrown =>
           /\ LET last == vsql.cst[vwalk.visited[Len(vwalk.visited)]]
              IN last.type = "function_call" /\ last.name.k = "obj"
           /\ vresult = [isValid |-> FALSE,
                         error |-> <<"SQL parsing error",
                                     "node.name.toLowerCase is not a function">>]

\* the walk threw on a call two levels below the root and the validator
\* returned a rejection
C20_Witness ==
    /\ Returned
    /\ Len(vsql.cst) = 3
    /\ vsql.cst[2].type = "select_stmt" /\ vsql.cst[2].parent = 1
    /\ vsql.cst[3] = MkNode([type |-> "function_call", name |-> ObjName], 2)
    /\ vwalk.thrown
    /\ ~vresult.isValid

(***************************************************************************)
(* C16.  The pipeline of a request is strictly linear: every stage it      *)
(* performs is the next one of AuthCheck, BodyParse, Validate, Charge,     *)
(* Execute, Respond after the stages it has performed, and a request that  *)
(* has been answered performs no further stage.                            *)
(***************************************************************************)
Pipeline == <<"AuthCheck", "BodyParse", "Validate", "Charge", "Execute", "Respond">>

IsPrefix(s, t) == Len(s) <= Len(t) /\ \A i \in DOMAIN s : s[i] = t[i]

C16_StrictlyLinear ==
    [][\A r \in Reqs :
         trace'[r] # trace[r] =>
           /\ responses[r] = << >>
           /\ Len(trace'[r]) = Len(trace[r]) + 1
           /\ IsPrefix(trace[r], trace'[r])
           /\ IsPrefix(trace'[r], Pipeline)]_vars

\* one request went through all six stages, another stopped at Validate
C16_Witness ==
    \E r, q \in Reqs :
        /\ trace[r] = Pipeline
        /\ pc[q] = "done" /\ trace[q] = <<"AuthCheck", "BodyParse", "Validate">>

(***************************************************************************)
(* C17.  No retries: a request invokes the charge at most once and exec at *)
(* most once, and the account is never debited more than one fee per       *)
(* request that went to the ledger.                                        *)
(***************************************************************************)
C17_NoRetries ==
    /\ \A r \in Reqs :
          /\ Count(trace[r], "Charge") <= 1
          /\ Count(trace[r], "Execute") <= 1
          /\ Len(executed[r]) <= 1
          /\ chargeResult[r].balanceBefore - chargeResult[r].balanceAfter <= Fee
    /\ balance0 - balance
         <= Fee * Cardinality({ r \in Reqs : Count(trace[r], "Charge") > 0 })

\* a request whose exec faulted has ended with one charge and one exec
C17_Witness ==
    \E r \in Reqs :
        /\ FailedAfterCharge(r)
        /\ Count(trace[r], "Charge") = 1
        /\ Len(executed[r]) = 1

(***************************************************************************)
(* C18.  Every received request eventually ends, with exactly one response *)
(* whose status is 401, 400, 402, 500 or 200; no request ends without a    *)
(* response and none has two.                                              *)
(***************************************************************************)
C18_OneResponse ==
    /\ \A r \in Reqs : (pc[r] # "idle") ~> (pc[r] = "done")
    /\ [](\A r \in Reqs :
            /\ Len(responses[r]) <= 1
            /\ pc[r] = "done" <=> Len(responses[r]) = 1
            /\ Len(responses[r]) = 1 =>
                 responses[r][1].status \in {401, 400, 402, 500, 200})

\* every request has ended, one of them with a 200 and one with a 500
C18_Witness ==
    /\ \A r \in Reqs : pc[r] = "done" /\ Len(responses[r]) = 1
    /\ \E r, q \in Reqs :
          responses[r][1].status = 200 /\ responses[q][1].status = 500

(***************************************************************************)
(* C19.  The statement handed to exec is the request's sql, unmodified,    *)
(* the one the validator was given and accepted; the bind arguments are    *)
(* the request's params, or none when it has no params.                    *)
(***************************************************************************)
C19_ExecutesValidatedText ==
    \A r \in Reqs : \A k \in DOMAIN executed[r] :
        LET call == executed[r][k]
        IN /\ call.sql = data[r].sql
           /\ call.sql = body[r].sql
           /\ "Validate" \in Range(trace[r])
           /\ validation[r] = [isValid |-> TRUE, error |-> NoError]
           /\ call.sql.parses
           /\ Clean(call.sql.cst) /\ ~HasObjCall(call.sql.cst)
           /\ call.args = IF call.dataParams = "array" THEN "array" ELSE "empty"

\* the count query was executed with the request's params
C19_Witness ==
    \E r \in Reqs :
        /\ Len(executed[r]) = 1
        /\ executed[r][1].sql = SelectCount
        /\ executed[r][1].args = "array"

====
